---- MODULE Spec2Model ----
(***************************************************************************)
(* Client-side scripts of the Whoosh blog-post page                        *)
(* (src/app/static/js/frontstage/blogpost.js): the script's top-level      *)
(* statements, its two DOMContentLoaded listeners, the timers and fetches  *)
(* they start, and the resize listeners.  The document, the network, the   *)
(* clock and the viewer's timezone are the environment.                    *)
(*                                                                         *)
(* Text is modelled as a sequence of one-character strings, so that        *)
(* parsing and formatting are computed and never assumed.                  *)
(***************************************************************************)
EXTENDS Integers, Sequences, FiniteSets, TLC

(***************************************************************************)
(* Bounds of the model.                                                    *)
(***************************************************************************)
MaxMissing == 1        \* elements absent from a page of the page specification
MaxTocNodes == 6       \* nodes under .toc in the TOC specification
MaxPageTocNodes == 2   \* nodes under .toc in the page specification
MaxCountLen == 4       \* characters of a .count element's content
MaxImages == 2         \* .ajax-profile-pic images in the image specification
MaxTicks == 4          \* clock ticks the page is observed for

(***************************************************************************)
(* Generic helpers on sequences.                                           *)
(***************************************************************************)
RECURSIVE SeqsUpTo(_, _)
SeqsUpTo(S, n) ==
    IF n = 0 THEN {<<>>}
    ELSE LET prev == SeqsUpTo(S, n - 1)
         IN  prev \cup {Append(s, c) : s \in {t \in prev : Len(t) = n - 1}, c \in S}

RECURSIVE Pow10(_)
Pow10(n) == IF n = 0 THEN 1 ELSE 10 * Pow10(n - 1)

Digits == <<"0", "1", "2", "3", "4", "5", "6", "7", "8", "9">>
IsDigit(c) == \E i \in 1..10 : Digits[i] = c
DigitVal(c) == (CHOOSE i \in 1..10 : Digits[i] = c) - 1
DigitChr(d) == Digits[d + 1]

\* decimal digits of a natural number, most significant first
RECURSIVE NatChars(_)
NatChars(n) == IF n < 10 THEN <<DigitChr(n)>> ELSE Append(NatChars(n \div 10), DigitChr(n % 10))

\* value of a sequence of digit characters
RECURSIVE DigitsVal(_)
DigitsVal(s) == IF s = <<>> THEN 0 ELSE 10 * DigitsVal(SubSeq(s, 1, Len(s) - 1)) + DigitVal(s[Len(s)])

\* n written with at least w digits
RECURSIVE PadChars(_, _)
PadChars(n, w) == LET s == NatChars(n) IN IF Len(s) >= w THEN s ELSE <<"0">> \o PadChars(n, w - 1)

\* length of the longest prefix of s, from position i on, made of digits
RECURSIVE DigitRun(_, _)
DigitRun(s, i) == IF i <= Len(s) /\ IsDigit(s[i]) THEN 1 + DigitRun(s, i + 1) ELSE 0

(***************************************************************************)
(* The table of contents: the subtree of the document under the .toc       *)
(* container.  Nodes are numbered 1..N in document order; parent 0 is the  *)
(* container itself; 0 also stands for querySelector's null.               *)
(***************************************************************************)
TocTags == {"ul", "li", "a"}

\* ancestors of node n (the container, 0, excluded), and n itself
RECURSIVE AncestorsOrSelf(_, _)
AncestorsOrSelf(dom, n) == IF n = 0 THEN {0} ELSE {n} \cup AncestorsOrSelf(dom, dom[n].parent)

\* the markup a TOC generator emits: lists hold items, items hold links and lists
WellNested(dom, p, t) ==
    IF p = 0 THEN t \in {"ul", "a"}
    ELSE CASE dom[p].tag = "ul" -> t \in {"li", "a"}
           [] dom[p].tag = "li" -> t \in {"a", "ul"}
           [] OTHER -> FALSE

\* every document of at most n nodes, each new node appended in document order
\* the documents of exactly n - 1 nodes extended by one node, the last in document order
ExtendDoms(prev, n) ==
    {d \in {Append(e, [tag |-> t, parent |-> p]) :
                e \in {f \in prev : Len(f) = n - 1}, t \in TocTags, p \in 0..(n - 1)} :
        /\ d[n].parent \in (IF n = 1 THEN {0} ELSE AncestorsOrSelf(d, n - 1))
        /\ WellNested(d, d[n].parent, d[n].tag)}

\* every document of at most n nodes
RECURSIVE TocDoms(_)
TocDoms(n) ==
    IF n = 0 THEN {<<>>}
    ELSE LET prev == TocDoms(n - 1) IN prev \cup ExtendDoms(prev, n)

\* element.children, in document order
Children(dom, p) == {n \in 1..Len(dom) : dom[n].parent = p}

RECURSIVE SetToSortedSeq(_)
SetToSortedSeq(S) ==
    IF S = {} THEN <<>>
    ELSE LET m == CHOOSE x \in S : \A y \in S : x <= y
         IN  <<m>> \o SetToSortedSeq(S \ {m})

\* element.querySelector("ul"): the first descendant ul in document order, or null (0)
QuerySelectorUl(dom, root) ==
    LET hits == {n \in 1..Len(dom) : /\ dom[n].tag = "ul"
                                     /\ n # root
                                     /\ root \in AncestorsOrSelf(dom, n)}
    IN  IF hits = {} THEN 0 ELSE CHOOSE n \in hits : \A m \in hits : n <= m

TocLevelClass(level) == "toclevel-" \o ToString(level)

\* blogpost.js addTocLevelClass: cls maps each node to its classList
RECURSIVE addTocLevelClass(_, _, _, _)
addTocLevelClass(dom, cls, ulElement, level) ==
    LET items == SetToSortedSeq(Children(dom, ulElement))
        RECURSIVE loop(_, _)
        loop(i, c) ==
            IF i > Len(items) THEN c
            ELSE LET item == items[i]
                 IN  IF dom[item].tag = "li"
                     THEN LET c1 == [c EXCEPT ![item] = @ \cup {TocLevelClass(level)}]
                              nestedUl == QuerySelectorUl(dom, item)
                          IN  loop(i + 1, IF nestedUl # 0
                                          THEN addTocLevelClass(dom, c1, nestedUl, level + 1)
                                          ELSE c1)
                     ELSE loop(i + 1, c)
    IN  loop(1, cls)

\* blogpost.js setupTableOfContents, as a function of the TOC's state
setupTableOfContents(dom, containerClasses, prepended, cls) ==
    LET topLevelUl == QuerySelectorUl(dom, 0)
    IN  IF topLevelUl # 0 /\ Cardinality(Children(dom, topLevelUl)) > 0
        THEN [containerClasses |-> containerClasses \ {"d-none"},
              prepended |-> <<"Table of Contents">> \o prepended,
              cls |-> addTocLevelClass(dom, cls, topLevelUl, 1)]
        ELSE [containerClasses |-> containerClasses, prepended |-> prepended, cls |-> cls]

(***************************************************************************)
(* The count formatter.  A number is [nan, neg, int, fnum, flen]: the      *)
(* value (-1)^neg * (int + fnum / 10^flen).                                 *)
(***************************************************************************)
CountAlphabet == {"0", "1", "2", ".", ",", "a", "-", " "}

NaN == [nan |-> TRUE, neg |-> FALSE, int |-> 0, fnum |-> 0, flen |-> 0]

\* number of white-space characters s starts with, from position i on
RECURSIVE SpaceRun(_, _)
SpaceRun(s, i) == IF i <= Len(s) /\ s[i] = " " THEN 1 + SpaceRun(s, i + 1) ELSE 0

\* the global parseFloat: leading white space is skipped, then the longest prefix
\* that is a decimal literal is read and the rest ignored; NaN when there is none.
\* (Exponents and "Infinity" are outside the alphabets the model draws from.)
parseFloat(s) ==
    LET i0 == SpaceRun(s, 1) + 1
        signed == i0 <= Len(s) /\ s[i0] \in {"-", "+"}
        i1 == IF signed THEN i0 + 1 ELSE i0
        nInt == DigitRun(s, i1)
        hasDot == i1 + nInt <= Len(s) /\ s[i1 + nInt] = "."
        nFrac == IF hasDot THEN DigitRun(s, i1 + nInt + 1) ELSE 0
    IN  IF nInt = 0 /\ nFrac = 0 THEN NaN
        ELSE [nan |-> FALSE,
              neg |-> signed /\ s[i0] = "-",
              int |-> DigitsVal(SubSeq(s, i1, i1 + nInt - 1)),
              fnum |-> DigitsVal(SubSeq(s, i1 + nInt + 1, i1 + nInt + nFrac)),
              flen |-> nFrac]

isNaN(v) == v.nan

\* digits of a natural number in groups of three separated by commas
RECURSIVE GroupedChars(_)
GroupedChars(n) ==
    IF n < 1000 THEN NatChars(n)
    ELSE GroupedChars(n \div 1000) \o <<",">> \o PadChars(n % 1000, 3)

RECURSIVE StripTrailingZeros(_)
StripTrailingZeros(s) ==
    IF s # <<>> /\ s[Len(s)] = "0" THEN StripTrailingZeros(SubSeq(s, 1, Len(s) - 1)) ELSE s

\* Number.prototype.toLocaleString() in an en locale: grouped integer part, at most
\* three fraction digits (rounded to nearest), no trailing zeros
numberToLocaleString(v) ==
    LET scale == Pow10(v.flen)
        milli == (2 * 1000 * v.fnum + scale) \div (2 * scale)
        whole == v.int + (milli \div 1000)
        frac == StripTrailingZeros(PadChars(milli % 1000, 3))
    IN  (IF v.neg THEN <<"-">> ELSE <<>>)
        \o GroupedChars(whole)
        \o (IF frac = <<>> THEN <<>> ELSE <<".">> \o frac)

\* blogpost.js formatCounts, on the innerHTML of one .count element
formatCount(innerHTML) ==
    LET number == parseFloat(innerHTML)
    IN  IF ~isNaN(number) THEN numberToLocaleString(number) ELSE innerHTML

\* blogpost.js formatCounts: every .count element, in document order
formatCounts(texts) == [i \in 1..Len(texts) |-> formatCount(texts[i])]

(***************************************************************************)
(* The time localizer.  An instant is a number of seconds since            *)
(* 1970-01-01T00:00:00Z; a viewer timezone is its offset from UTC in        *)
(* minutes (zones without daylight saving).                                *)
(***************************************************************************)
IsLeap(y) == (y % 4 = 0 /\ y % 100 # 0) \/ y % 400 = 0

DaysInMonth(y, m) ==
    IF m = 2 THEN (IF IsLeap(y) THEN 29 ELSE 28)
    ELSE IF m \in {4, 6, 9, 11} THEN 30 ELSE 31

\* ECMAScript DayFromYear
DayFromYear(y) ==
    365 * (y - 1970) + ((y - 1969) \div 4) - ((y - 1901) \div 100) + ((y - 1601) \div 400)

RECURSIVE DaysBeforeMonth(_, _)
DaysBeforeMonth(y, m) == IF m = 1 THEN 0 ELSE DaysBeforeMonth(y, m - 1) + DaysInMonth(y, m - 1)

\* ECMAScript MakeDate(MakeDay(y, mo, d), MakeTime(h, mi, s)), in seconds
MakeInstant(y, mo, d, h, mi, sec) ==
    ((DayFromYear(y) + DaysBeforeMonth(y, mo) + (d - 1)) * 24 + h) * 3600 + mi * 60 + sec

Years == 1970..2100

\* the calendar fields of an instant shifted by offsetMin minutes
CivilFields(t, offsetMin) ==
    LET local == t + offsetMin * 60
        day == local \div 86400
        secs == local % 86400
        y == CHOOSE yy \in Years : DayFromYear(yy) <= day /\ day < DayFromYear(yy + 1)
        doy == day - DayFromYear(y)
        mo == CHOOSE m \in 1..12 :
                  DaysBeforeMonth(y, m) <= doy /\ doy < DaysBeforeMonth(y, m) + DaysInMonth(y, m)
    IN  [year |-> y, month |-> mo, day |-> doy - DaysBeforeMonth(y, mo) + 1,
         hour |-> secs \div 3600, minute |-> (secs % 3600) \div 60, second |-> secs % 60]

InvalidDate == [valid |-> FALSE, t |-> 0]

IsSpaceChar(c) == c = " "

\* String.prototype.trim
RECURSIVE trim(_)
trim(s) ==
    IF s # <<>> /\ IsSpaceChar(s[1]) THEN trim(Tail(s))
    ELSE IF s # <<>> /\ IsSpaceChar(s[Len(s)]) THEN trim(SubSeq(s, 1, Len(s) - 1))
    ELSE s

AllDigits(s, from, to) == \A i \in from..to : IsDigit(s[i])

\* new Date(string) for the ECMAScript date-time string format
\*   YYYY-MM-DD | YYYY-MM-DDTHH:mm:ss | YYYY-MM-DDTHH:mm:ssZ.
\* A date-only form is UTC; a date-time form without a zone designator is local time
\* (ECMA-262, Date.parse); an illegal field value or any other text gives an invalid Date.
dateParse(s, offsetMin) ==
    LET n == Len(s)
        dateOk == /\ n >= 10
                  /\ AllDigits(s, 1, 4) /\ s[5] = "-" /\ AllDigits(s, 6, 7)
                  /\ s[8] = "-" /\ AllDigits(s, 9, 10)
        timeOk == /\ n >= 19
                  /\ s[11] = "T" /\ AllDigits(s, 12, 13) /\ s[14] = ":"
                  /\ AllDigits(s, 15, 16) /\ s[17] = ":" /\ AllDigits(s, 18, 19)
        y == DigitsVal(SubSeq(s, 1, 4))
        mo == DigitsVal(SubSeq(s, 6, 7))
        d == DigitsVal(SubSeq(s, 9, 10))
        h == DigitsVal(SubSeq(s, 12, 13))
        mi == DigitsVal(SubSeq(s, 15, 16))
        sec == DigitsVal(SubSeq(s, 18, 19))
        dateLegal == y \in Years /\ mo \in 1..12 /\ d \in 1..DaysInMonth(y, mo)
        timeLegal == h \in 0..23 /\ mi \in 0..59 /\ sec \in 0..59
    IN  IF dateOk /\ n = 10
        THEN IF dateLegal THEN [valid |-> TRUE, t |-> MakeInstant(y, mo, d, 0, 0, 0)]
             ELSE InvalidDate
        ELSE IF dateOk /\ timeOk /\ (n = 19 \/ (n = 20 /\ s[20] = "Z"))
        THEN IF dateLegal /\ timeLegal
             THEN [valid |-> TRUE,
                   t |-> MakeInstant(y, mo, d, h, mi, sec) - (IF n = 19 THEN offsetMin * 60 ELSE 0)]
             ELSE InvalidDate
        ELSE InvalidDate

Chars(str) ==
    CASE str = "Invalid Date" -> <<"I", "n", "v", "a", "l", "i", "d", " ", "D", "a", "t", "e">>
      [] str = "January" -> <<"J", "a", "n", "u", "a", "r", "y">>
      [] str = "February" -> <<"F", "e", "b", "r", "u", "a", "r", "y">>
      [] str = "March" -> <<"M", "a", "r", "c", "h">>
      [] str = "April" -> <<"A", "p", "r", "i", "l">>
      [] str = "May" -> <<"M", "a", "y">>
      [] str = "June" -> <<"J", "u", "n", "e">>
      [] str = "July" -> <<"J", "u", "l", "y">>
      [] str = "August" -> <<"A", "u", "g", "u", "s", "t">>
      [] str = "September" -> <<"S", "e", "p", "t", "e", "m", "b", "e", "r">>
      [] str = "October" -> <<"O", "c", "t", "o", "b", "e", "r">>
      [] str = "November" -> <<"N", "o", "v", "e", "m", "b", "e", "r">>
      [] str = "December" -> <<"D", "e", "c", "e", "m", "b", "e", "r">>

MonthNames == <<"January", "February", "March", "April", "May", "June", "July",
                "August", "September", "October", "November", "December">>

\* the hour field under hour12: false.  ECMA-402 resolved it, for a locale whose
\* default is a 12-hour clock (en-CA), to the cycle h24 (midnight is hour 24) up to its
\* 2023 edition and to h23 since: the engine decides which.
HourCycles == {"h23", "h24"}
HourField(h, cycle) == IF cycle = "h24" /\ h = 0 THEN 24 ELSE h

\* date.toLocaleDateString("en-CA", {year: numeric, month: 2-digit, day: 2-digit})
numericDate(f) ==
    PadChars(f.year, 4) \o <<"-">> \o PadChars(f.month, 2) \o <<"-">> \o PadChars(f.day, 2)

\* date.toLocaleTimeString("en-CA", {hour, minute, second: 2-digit, hour12: false})
time24(f, cycle) ==
    PadChars(HourField(f.hour, cycle), 2) \o <<":">> \o PadChars(f.minute, 2)
        \o <<":">> \o PadChars(f.second, 2)

\* date.toLocaleString("en-CA", {year: numeric, month: long, day: numeric})
longMonthDate(f) ==
    Chars(MonthNames[f.month]) \o <<" ">> \o NatChars(f.day) \o <<",", " ">> \o NatChars(f.year)

TimeClasses == <<"utc-to-local-long", "utc-to-local-medium", "utc-to-local-short">>

\* the inner forEach with the long class rendered by one toLocaleString call on the
\* options of formatSettings, as the other two classes are
localizeTextSingleCall(className, textContent, offsetMin, cycle) ==
    LET date == dateParse(trim(textContent), offsetMin)
        f == CivilFields(date.t, offsetMin)
    IN  IF ~date.valid THEN Chars("Invalid Date")
        ELSE IF className = "utc-to-local-long"
        THEN numericDate(f) \o <<",", " ">> \o time24(f, cycle)
        ELSE IF className = "utc-to-local-medium" THEN numericDate(f)
        ELSE longMonthDate(f)

\* blogpost.js convertUTCToLocal, the body of its inner forEach: the new text of one
\* element of class className.  Every toLocale...String of an invalid Date is the
\* text "Invalid Date".
localizeText(className, textContent, offsetMin, cycle) ==
    LET utcDateString == trim(textContent)
        date == dateParse(utcDateString, offsetMin)
        f == CivilFields(date.t, offsetMin)
    IN  IF className = "utc-to-local-long"
        THEN LET localDate == IF date.valid THEN numericDate(f) ELSE Chars("Invalid Date")
                 localTime == IF date.valid THEN time24(f, cycle) ELSE Chars("Invalid Date")
             IN  localDate \o <<" ">> \o localTime
        ELSE IF className = "utc-to-local-medium"
        THEN (IF date.valid THEN numericDate(f) ELSE Chars("Invalid Date"))
        ELSE (IF date.valid THEN longMonthDate(f) ELSE Chars("Invalid Date"))

\* blogpost.js convertUTCToLocal: the classes in the order of formatSettings' keys, the
\* elements of each in document order.  Each element of the model carries one class, so
\* the passes touch disjoint elements.
convertUTCToLocal(elems, offsetMin, cycle) ==
    [i \in 1..Len(elems) |->
        [cls |-> elems[i].cls,
         text |-> localizeText(elems[i].cls, elems[i].text, offsetMin, cycle)]]

(***************************************************************************)
(* The layout sizer.  A CSS length in px is a rational [num, den].          *)
(***************************************************************************)
AspectNum == 9
AspectDen == 21
MinHeightVh == 102

\* offsetHeight of the chrome elements when present, the cover's being the one it has
\* before any script sets its height
ChromeHeight == [navbar |-> 56, cover |-> 300, bottomNav |-> 40, footer |-> 120]

Unset == [set |-> FALSE, num |-> 0, den |-> 1]

\* offsetHeight is the layout height rounded to an integer
RoundRatio(num, den) == (2 * num + den) \div (2 * den)
coverOffsetHeight(style) == IF style.set THEN RoundRatio(style.num, style.den) ELSE ChromeHeight.cover

\* setCoverHeight with the ratio of a 16:9 cover
setCoverHeightSixteenNine(width) == [set |-> TRUE, num |-> AspectNum * width, den |-> 16]

\* blogpost.js setCoverHeight: cover.style.height for the measured offsetWidth
setCoverHeight(width) == [set |-> TRUE, num |-> AspectNum * width, den |-> AspectDen]

\* blogpost.js setContentMinHeight: content.style.minHeight, calc(102vh - total px)
setContentMinHeight(pres, style) ==
    LET navbarHeight == IF "navbar" \in pres THEN ChromeHeight.navbar ELSE 0
        coverHeight == IF "cover" \in pres THEN coverOffsetHeight(style) ELSE 0
        bottomNavHeight == IF "bottomNav" \in pres THEN ChromeHeight.bottomNav ELSE 0
        footerHeight == IF "footer" \in pres THEN ChromeHeight.footer ELSE 0
        totalHeights == navbarHeight + coverHeight + bottomNavHeight + footerHeight
    IN  [set |-> TRUE, vh |-> MinHeightVh, px |-> totalHeights]

NoMinHeight == [set |-> FALSE, vh |-> 0, px |-> 0]

(***************************************************************************)
(* The page.                                                               *)
(***************************************************************************)
Elements ==
    {"toc", "ajaxProfilePic", "postUid", "comment", "commentForm", "notification",
     "yearTag", "yearTagMobile", "count", "navbar", "cover", "bottomNav", "footer", "content"}

ReadCountDelay == 30000
NotificationDelay == 3000
FadeDelay == 300
TickMs == 10000

VARIABLES
    present,              \* the elements the document holds
    phase,                \* "script", "dcl1", "dcl2", "idle": what the page runs next
    dclListeners,         \* DOMContentLoaded listeners registered by the script
    resizeListeners,      \* resize listeners, in registration order
    uncaught,             \* source lines at which an uncaught TypeError was raised
    ran,                  \* initialisation steps that ran to their end
    console,              \* errors logged with console.error
    tocDom,               \* the subtree under .toc
    tocContainerClasses,  \* classList of .toc
    tocPrepended,         \* children inserted before .toc's original first child
    liClasses,            \* classList of each node under .toc
    imgSrc,               \* src attribute of each .ajax-profile-pic image
    imgInitial,           \* the src each image was served with (history)
    imgFetch,             \* the replacement lookup of each image
    postUid,              \* data-post-uid of #post-uid
    readTimer,            \* the read-count timeout
    readRequests,         \* read-count GETs issued, oldest first (history)
    readFetch,            \* the read-count request: "none", "pending", "ok", "failed"
    notifTimer,           \* the notification timeouts
    notifStyle,           \* style of #notification
    now,                  \* the clock, ms
    dclAt,                \* the time DOMContentLoaded was dispatched (history), -1 before
    commentValue,         \* value of the #comment textarea
    formListeners,        \* listeners on #comment-form
    yearHtml,             \* innerHTML of #yearTag and #yearTagMobile
    countText,            \* innerHTML of each .count element
    countInitial,         \* the content each .count element was served with (history)
    timeElems,            \* class and textContent of each time element
    timeInitial,          \* the time elements as served (history)
    tzOffset,             \* the viewer's timezone, minutes east of UTC
    hourCycle,            \* the engine's reading of hour12: false
    coverWidth,           \* offsetWidth of the cover in the current viewport
    coverStyle,           \* cover.style.height
    contentMinHeight,     \* content.style.minHeight
    resizePending,        \* a resize event waits for dispatch
    measured              \* the width setCoverHeight last read (history), -1 before

bootVars == <<present, phase, dclListeners, resizeListeners, uncaught, ran>>
tocVars == <<tocDom, tocContainerClasses, tocPrepended, liClasses>>
imgVars == <<imgSrc, imgInitial, imgFetch>>
readVars == <<postUid, readTimer, readRequests, readFetch>>
notifVars == <<notifTimer, notifStyle>>
formVars == <<commentValue, formListeners>>
textVars == <<yearHtml, countText, countInitial, timeElems, timeInitial, tzOffset, hourCycle>>
layoutVars == <<coverWidth, coverStyle, contentMinHeight, resizePending, measured>>
vars == <<bootVars, console, tocVars, imgVars, readVars, notifVars, now, dclAt, formVars,
          textVars, layoutVars>>

NoBody == [kind |-> "none", hasImageUrl |-> FALSE, imageUrl |-> ""]
NoFetch == [state |-> "none", originalSrc |-> "", body |-> NoBody, outcome |-> "none"]

ReplacementUrls == {"/cdn/a.png", "/cdn/b.png"}

\* what the replacement endpoint may answer: a body that is not JSON, the JSON value
\* null, and objects without imageUrl, with an empty one and with a usable one
Bodies ==
    {[kind |-> "notJson", hasImageUrl |-> FALSE, imageUrl |-> ""],
     [kind |-> "null", hasImageUrl |-> FALSE, imageUrl |-> ""],
     [kind |-> "object", hasImageUrl |-> FALSE, imageUrl |-> ""],
     [kind |-> "object", hasImageUrl |-> TRUE, imageUrl |-> ""]}
    \cup {[kind |-> "object", hasImageUrl |-> TRUE, imageUrl |-> u] : u \in ReplacementUrls}

NoTimer == [state |-> "unset", due |-> 0]

\* one state of the page before its script runs
InitState(pres, dom, srcs, counts, times, tz, cycle, width) ==
    /\ present = pres
    /\ phase = "script"
    /\ dclListeners = {}
    /\ resizeListeners = <<>>
    /\ uncaught = {}
    /\ ran = {}
    /\ console = {}
    /\ tocDom = dom
    /\ tocContainerClasses = IF "toc" \in pres THEN {"toc"} ELSE {}
    /\ tocPrepended = <<>>
    /\ liClasses = [n \in 1..Len(dom) |-> {}]
    /\ imgSrc = srcs
    /\ imgInitial = srcs
    /\ imgFetch = [i \in 1..Len(srcs) |-> NoFetch]
    /\ postUid = IF "postUid" \in pres THEN "42" ELSE ""
    /\ readTimer = NoTimer
    /\ readRequests = <<>>
    /\ readFetch = "none"
    /\ notifTimer = NoTimer
    /\ notifStyle = [opacity |-> "1", display |-> "block"]
    /\ now = 0
    /\ dclAt = -1
    /\ commentValue = IF "comment" \in pres THEN "draft" ELSE ""
    /\ formListeners = {}
    /\ yearHtml = [e \in {"yearTag", "yearTagMobile"} \cap pres |-> "served"]
    /\ countText = counts
    /\ countInitial = counts
    /\ timeElems = times
    /\ timeInitial = times
    /\ tzOffset = tz
    /\ hourCycle = cycle
    /\ coverWidth = width
    /\ coverStyle = Unset
    /\ contentMinHeight = NoMinHeight
    /\ resizePending = FALSE
    /\ measured = -1

(***************************************************************************)
(* The script's top-level statements (lines 72-80 and 221): the .toc        *)
(* container is looked up and hidden, then the two DOMContentLoaded         *)
(* listeners are registered.  classList of a null container is a TypeError  *)
(* that ends the script before either registration.  (hljs, lines 72-73,    *)
(* is another script's global and is taken to be loaded.)                   *)
(***************************************************************************)
ScriptLoad ==
    /\ phase = "script"
    /\ phase' = "dcl1"
    /\ IF "toc" \in present
       THEN /\ tocContainerClasses' = tocContainerClasses \cup {"d-none"}
            /\ dclListeners' = {"blogpost", "common"}
            /\ uncaught' = uncaught
       ELSE /\ tocContainerClasses' = tocContainerClasses
            /\ dclListeners' = dclListeners
            /\ uncaught' = uncaught \cup {77}
    /\ UNCHANGED <<present, resizeListeners, ran, console, tocDom, tocPrepended, liClasses,
                   imgVars, readVars, notifVars, now, dclAt, formVars, textVars, layoutVars>>

\* the line of the first listener (lines 80-92) at which a null element is used
abortBlogpost(pres) ==
    IF "postUid" \notin pres THEN 83
    ELSE IF "comment" \notin pres THEN 87
    ELSE IF "commentForm" \notin pres THEN 90
    ELSE 0

\* blogpost.js fetchReplacementImage, up to the fetch: the src is read, the GET issued
fetchReplacementImage(src) ==
    [state |-> "pending", originalSrc |-> src, body |-> NoBody, outcome |-> "none"]

(***************************************************************************)
(* The first DOMContentLoaded listener (lines 80-92).  A statement at line  *)
(* l runs when no earlier line threw.                                       *)
(***************************************************************************)
DCLBlogpost ==
    /\ phase = "dcl1"
    /\ phase' = "dcl2"
    /\ dclAt' = now
    /\ IF "blogpost" \in dclListeners
       THEN LET abort == abortBlogpost(present)
                done(l) == abort = 0 \/ l < abort
                toc == setupTableOfContents(tocDom, tocContainerClasses, tocPrepended, liClasses)
            IN  /\ imgFetch' = [i \in DOMAIN imgSrc |-> fetchReplacementImage(imgSrc[i])]
                /\ readTimer' = IF done(84)
                                THEN [state |-> "armed", due |-> now + ReadCountDelay]
                                ELSE readTimer
                /\ commentValue' = IF done(87) THEN "" ELSE commentValue
                /\ formListeners' = IF done(90)
                                    THEN formListeners \cup {"keypress:preventFormEnter"}
                                    ELSE formListeners
                /\ tocContainerClasses' = IF done(91) THEN toc.containerClasses
                                          ELSE tocContainerClasses
                /\ tocPrepended' = IF done(91) THEN toc.prepended ELSE tocPrepended
                /\ liClasses' = IF done(91) THEN toc.cls ELSE liClasses
                /\ uncaught' = IF abort = 0 THEN uncaught ELSE uncaught \cup {abort}
                /\ ran' = ran \cup {"fetchImages"}
                              \cup (IF done(84) THEN {"readCountTimer"} ELSE {})
                              \cup (IF done(87) THEN {"commentCleared"} ELSE {})
                              \cup (IF done(90) THEN {"formKeypress"} ELSE {})
                              \cup (IF done(91) THEN {"toc"} ELSE {})
       ELSE UNCHANGED <<imgFetch, readTimer, commentValue, formListeners,
                        tocContainerClasses, tocPrepended, liClasses, uncaught, ran>>
    /\ UNCHANGED <<present, dclListeners, resizeListeners, console, tocDom, imgSrc, imgInitial,
                   postUid, readRequests, readFetch, notifVars, now, textVars, layoutVars>>

\* blogpost.js updateCurrentYear: each year tag that exists shows the current year
updateCurrentYear(html) == [e \in DOMAIN html |-> "currentYear"]

\* blogpost.js handleNotification, up to the setTimeout
handleNotification(t) == [state |-> "armed3000", due |-> t + NotificationDelay]

\* the line of the second listener (lines 221-231) whose call uses a null element:
\* setCoverHeight reads cover.offsetWidth (216), setContentMinHeight sets
\* content.style (211)
abortCommon(pres) ==
    IF "cover" \notin pres THEN 226
    ELSE IF "content" \notin pres THEN 227
    ELSE 0

ThrowLine(callLine) == IF callLine = 226 THEN 216 ELSE 211

(***************************************************************************)
(* The second DOMContentLoaded listener (lines 221-231).                    *)
(***************************************************************************)
DCLCommon ==
    /\ phase = "dcl2"
    /\ phase' = "idle"
    /\ IF "common" \in dclListeners
       THEN LET abort == abortCommon(present)
                done(l) == abort = 0 \/ l < abort
                style == setCoverHeight(coverWidth)
            IN  /\ notifTimer' = handleNotification(now)
                /\ yearHtml' = updateCurrentYear(yearHtml)
                /\ timeElems' = convertUTCToLocal(timeElems, tzOffset, hourCycle)
                /\ countText' = formatCounts(countText)
                /\ coverStyle' = IF done(226) THEN style ELSE coverStyle
                /\ measured' = IF done(226) THEN coverWidth ELSE measured
                /\ contentMinHeight' = IF done(227) THEN setContentMinHeight(present, style)
                                       ELSE contentMinHeight
                /\ resizeListeners' = IF done(230)
                                      THEN resizeListeners
                                               \o <<"setCoverHeight", "setContentMinHeight">>
                                      ELSE resizeListeners
                /\ uncaught' = IF abort = 0 THEN uncaught ELSE uncaught \cup {ThrowLine(abort)}
                /\ ran' = ran \cup {"notification", "year", "time", "counts"}
                              \cup (IF done(226) THEN {"coverHeight"} ELSE {})
                              \cup (IF done(227) THEN {"contentMinHeight"} ELSE {})
                              \cup (IF done(230) THEN {"resizeListeners"} ELSE {})
       ELSE UNCHANGED <<notifTimer, yearHtml, timeElems, countText, coverStyle, measured,
                        contentMinHeight, resizeListeners, uncaught, ran>>
    /\ UNCHANGED <<present, dclListeners, console, tocVars, imgVars, readVars, notifStyle, now,
                   dclAt, formVars, countInitial, timeInitial, tzOffset, hourCycle, coverWidth,
                   resizePending>>

(***************************************************************************)
(* fetchReplacementImage, lines 9-20: the promise chain of image i.         *)
(***************************************************************************)
ImageError(i, msg) == [source |-> "image", id |-> i, msg |-> msg]

\* fetch(originalSrc) settles: it rejects (network failure), and .catch logs; or it
\* fulfils with a response, whose body response.json() starts to read
FetchSettle(i) ==
    /\ imgFetch[i].state = "pending"
    /\ \/ /\ imgFetch' = [imgFetch EXCEPT ![i].state = "done", ![i].outcome = "networkError"]
          /\ console' = console \cup {ImageError(i, "Error fetching replacement image")}
       \/ \E b \in Bodies :
              /\ imgFetch' = [imgFetch EXCEPT ![i].state = "json", ![i].body = b]
              /\ console' = console
    /\ UNCHANGED <<bootVars, tocVars, imgSrc, imgInitial, readVars, notifVars, now, dclAt,
                   formVars, textVars, layoutVars>>

\* the callback of lines 11-17 without its test of data.imageUrl
srcAfterDataUnchecked(src, data) == data.imageUrl

\* the src attribute after the .then((data) => ...) callback ran on a parsed body
srcAfterData(src, data) ==
    IF data.hasImageUrl /\ data.imageUrl # "" THEN data.imageUrl ELSE src

\* response.json() settles: a body that is not JSON rejects; on null, data.imageUrl is
\* a TypeError; both reach .catch.  An object runs the callback of lines 11-17.
JsonSettle(i) ==
    /\ imgFetch[i].state = "json"
    /\ LET data == imgFetch[i].body
       IN  IF data.kind = "object"
           THEN /\ imgSrc' = [imgSrc EXCEPT ![i] = srcAfterData(@, data)]
                /\ IF data.hasImageUrl /\ data.imageUrl # ""
                   THEN /\ console' = console
                        /\ imgFetch' = [imgFetch EXCEPT ![i].state = "done",
                                                        ![i].outcome = "swapped"]
                   ELSE /\ console' = console
                                          \cup {ImageError(i, "Image URL not found in the response.")}
                        /\ imgFetch' = [imgFetch EXCEPT ![i].state = "done",
                                                        ![i].outcome = "noImageUrl"]
           ELSE /\ imgSrc' = imgSrc
                /\ console' = console \cup {ImageError(i, "Error fetching replacement image")}
                /\ imgFetch' = [imgFetch EXCEPT ![i].state = "done", ![i].outcome = "badBody"]
    /\ UNCHANGED <<bootVars, tocVars, imgInitial, readVars, notifVars, now, dclAt, formVars,
                   textVars, layoutVars>>

(***************************************************************************)
(* Timers and the clock.  A timeout's callback runs at or after its due     *)
(* time, never before.                                                      *)
(***************************************************************************)
Tick ==
    /\ now + TickMs <= MaxTicks * TickMs
    /\ now' = now + TickMs
    /\ UNCHANGED <<bootVars, console, tocVars, imgVars, readVars, notifVars, dclAt, formVars,
                   textVars, layoutVars>>

\* the timeout of line 84 fires: sendReadCountRequest (lines 24-28) issues the GET
ReadCountTimeout ==
    /\ readTimer.state = "armed"
    /\ now >= readTimer.due
    /\ readTimer' = [readTimer EXCEPT !.state = "fired"]
    /\ readRequests' = Append(readRequests, [postUid |-> postUid, at |-> now])
    /\ readFetch' = "pending"
    /\ UNCHANGED <<bootVars, console, tocVars, imgVars, postUid, notifVars, now, dclAt, formVars,
                   textVars, layoutVars>>

\* the read-count fetch settles; a rejection is logged by .catch (line 26)
ReadCountSettle ==
    /\ readFetch = "pending"
    /\ \/ /\ readFetch' = "ok"
          /\ console' = console
       \/ /\ readFetch' = "failed"
          /\ console' = console
                 \cup {[source |-> "readcount", id |-> 0, msg |-> "Error incrementing read count"]}
    /\ UNCHANGED <<bootVars, tocVars, imgVars, postUid, readTimer, readRequests, notifVars, now,
                   dclAt, formVars, textVars, layoutVars>>

\* handleNotification's outer timeout (lines 96-104)
NotificationTimeout ==
    /\ notifTimer.state = "armed3000"
    /\ now >= notifTimer.due
    /\ IF "notification" \in present
       THEN /\ notifStyle' = [notifStyle EXCEPT !.opacity = "0"]
            /\ notifTimer' = [state |-> "armed300", due |-> now + FadeDelay]
       ELSE /\ notifStyle' = notifStyle
            /\ notifTimer' = [notifTimer EXCEPT !.state = "done"]
    /\ UNCHANGED <<bootVars, console, tocVars, imgVars, readVars, now, dclAt, formVars, textVars,
                   layoutVars>>

\* handleNotification's inner timeout (lines 100-102)
NotificationFade ==
    /\ notifTimer.state = "armed300"
    /\ now >= notifTimer.due
    /\ notifStyle' = [notifStyle EXCEPT !.display = "none"]
    /\ notifTimer' = [notifTimer EXCEPT !.state = "done"]
    /\ UNCHANGED <<bootVars, console, tocVars, imgVars, readVars, now, dclAt, formVars, textVars,
                   layoutVars>>

(***************************************************************************)
(* Viewport resizes.                                                        *)
(***************************************************************************)
Widths == {481, 1000}

\* the viewer resizes the window: the cover's width changes, a resize event is queued
Resize ==
    /\ \E w \in Widths \ {coverWidth} : coverWidth' = w
    /\ resizePending' = TRUE
    /\ UNCHANGED <<bootVars, console, tocVars, imgVars, readVars, notifVars, now, dclAt, formVars,
                   textVars, coverStyle, contentMinHeight, measured>>

\* the listeners of one resize event, called in registration order on the layout
\* state st; an exception in one does not stop the next
RECURSIVE runResizeListeners(_, _, _, _)
runResizeListeners(ls, pres, width, st) ==
    IF ls = <<>> THEN st
    ELSE LET next ==
                 IF Head(ls) = "setCoverHeight"
                 THEN IF "cover" \in pres
                      THEN [st EXCEPT !.coverStyle = setCoverHeight(width), !.measured = width]
                      ELSE [st EXCEPT !.uncaught = @ \cup {216}]
                 ELSE IF "content" \in pres
                      THEN [st EXCEPT !.contentMinHeight = setContentMinHeight(pres, st.coverStyle)]
                      ELSE [st EXCEPT !.uncaught = @ \cup {211}]
         IN  runResizeListeners(Tail(ls), pres, width, next)

\* the queued resize event is dispatched (lines 229-230 registered its listeners)
HandleResize ==
    /\ resizePending
    /\ resizePending' = FALSE
    /\ LET st == runResizeListeners(resizeListeners, present, coverWidth,
                     [coverStyle |-> coverStyle, measured |-> measured,
                      contentMinHeight |-> contentMinHeight, uncaught |-> uncaught])
       IN  /\ coverStyle' = st.coverStyle
           /\ measured' = st.measured
           /\ contentMinHeight' = st.contentMinHeight
           /\ uncaught' = st.uncaught
    /\ UNCHANGED <<present, phase, dclListeners, resizeListeners, ran, console, tocVars, imgVars,
                   readVars, notifVars, now, dclAt, formVars, textVars, coverWidth>>

FetchSettles == \E i \in DOMAIN imgFetch : FetchSettle(i)
JsonSettles == \E i \in DOMAIN imgFetch : JsonSettle(i)

(***************************************************************************)
(* Pages.  A page is well formed when it holds every element the script     *)
(* looks up.                                                                *)
(***************************************************************************)
PresentSets(k) == {Elements \ m : m \in {mm \in SUBSET Elements : Cardinality(mm) <= k}}

SampleCount == <<"1", "2", "3", "4", "5">>
SampleTime == <<"2", "0", "2", "4", "-", "0", "1", "-", "1", "5",
                "T", "2", "3", ":", "3", "0", ":", "0", "0", "Z">>
SampleTimes == <<[cls |-> "utc-to-local-long", text |-> SampleTime]>>
SampleDom == <<[tag |-> "ul", parent |-> 0], [tag |-> "li", parent |-> 1]>>

\* the page before its script runs, its images, counts and TOC following from pres
PageState(pres, dom) ==
    InitState(pres, dom,
              IF "ajaxProfilePic" \in pres THEN <<"/pic/1">> ELSE <<>>,
              IF "count" \in pres THEN <<SampleCount>> ELSE <<>>,
              SampleTimes, 480, "h23", 1000)

Boot == ScriptLoad \/ DCLBlogpost \/ DCLCommon

(***************************************************************************)
(* Spec: the whole life of a page from which at most MaxMissing elements    *)
(* are absent: bootstrap, image lookups, timers, clock and resizes.         *)
(***************************************************************************)
Init ==
    \E pres \in PresentSets(MaxMissing) :
        PageState(pres, IF "toc" \in pres THEN SampleDom ELSE <<>>)

Next ==
    \/ ScriptLoad
    \/ DCLBlogpost
    \/ DCLCommon
    \/ FetchSettles
    \/ JsonSettles
    \/ Tick
    \/ ReadCountTimeout
    \/ ReadCountSettle
    \/ NotificationTimeout
    \/ NotificationFade
    \/ Resize
    \/ HandleResize

Spec == Init /\ [][Next]_vars

(***************************************************************************)
(* SpecBoot: the bootstrap alone, over every small TOC.                     *)
(***************************************************************************)
InitBoot ==
    \E pres \in PresentSets(MaxMissing) :
    \E dom \in (IF "toc" \in pres THEN TocDoms(MaxPageTocNodes) ELSE {<<>>}) :
        PageState(pres, dom)

SpecBoot == InitBoot /\ [][Boot]_vars

(***************************************************************************)
(* SpecLayout: bootstrap and resizes of pages from which any of the layout  *)
(* elements may be absent.                                                  *)
(***************************************************************************)
LayoutElements == {"navbar", "cover", "bottomNav", "footer", "content"}

InitLayout ==
    \E m \in SUBSET LayoutElements :
        InitState(Elements \ m, SampleDom, <<"/pic/1">>, <<SampleCount>>, SampleTimes,
                  480, "h23", 1000)

NextLayout == ScriptLoad \/ DCLBlogpost \/ DCLCommon \/ Resize \/ HandleResize

SpecLayout == InitLayout /\ [][NextLayout]_vars

(***************************************************************************)
(* SpecToc: the bootstrap of a well-formed page over every TOC of at most   *)
(* MaxTocNodes nodes.                                                       *)
(***************************************************************************)
InitToc ==
    \E dom \in TocDoms(MaxTocNodes) :
        InitState(Elements, dom, <<"/pic/1">>, <<SampleCount>>, SampleTimes, 480, "h23", 1000)

SpecToc == InitToc /\ [][Boot]_vars

(***************************************************************************)
(* SpecImages: a well-formed page with up to MaxImages profile pictures and *)
(* their concurrent lookups.                                                *)
(***************************************************************************)
OriginalUrls == {"/pic/1", "/pic/2"}

InitImages ==
    \E n \in 1..MaxImages :
    \E srcs \in [1..n -> OriginalUrls] :
        InitState(Elements, SampleDom, srcs, <<SampleCount>>, SampleTimes, 480, "h23", 1000)

NextImages == ScriptLoad \/ DCLBlogpost \/ DCLCommon \/ FetchSettles \/ JsonSettles

SpecImages == InitImages /\ [][NextImages]_vars

(***************************************************************************)
(* SpecCount: a well-formed page over every .count content of at most       *)
(* MaxCountLen characters of CountAlphabet, and the sample count.           *)
(***************************************************************************)
CountInputs == SeqsUpTo(CountAlphabet, MaxCountLen) \cup {SampleCount}

InitCount ==
    \E c \in CountInputs :
        InitState(Elements, SampleDom, <<"/pic/1">>, <<c>>, SampleTimes, 480, "h23", 1000)

SpecCount == InitCount /\ [][Boot]_vars

(***************************************************************************)
(* SpecTime: a well-formed page with two time elements, over UTC            *)
(* timestamps in the three forms of the date-time string format, malformed  *)
(* texts, viewer timezones and both hour cycles.                            *)
(***************************************************************************)
Stamps ==
    {[y |-> 2024, mo |-> 1, d |-> 15, h |-> 23, mi |-> 30, s |-> 0],
     [y |-> 2024, mo |-> 2, d |-> 29, h |-> 16, mi |-> 0, s |-> 5],
     [y |-> 2025, mo |-> 1, d |-> 1, h |-> 0, mi |-> 0, s |-> 0]}

IsoDate(st) == PadChars(st.y, 4) \o <<"-">> \o PadChars(st.mo, 2) \o <<"-">> \o PadChars(st.d, 2)
IsoDateTime(st) ==
    IsoDate(st) \o <<"T">> \o PadChars(st.h, 2) \o <<":">> \o PadChars(st.mi, 2)
        \o <<":">> \o PadChars(st.s, 2)

\* a UTC timestamp as a server may write it: with the designator Z, without a
\* designator, as a date only (midnight), and with white space around it
UtcTexts ==
    UNION {{IsoDateTime(st) \o <<"Z">>, IsoDateTime(st), IsoDate(st),
            <<" ">> \o IsoDateTime(st) \o <<"Z", " ">>} : st \in Stamps}

MalformedTexts ==
    {<<>>, <<"n", "/", "a">>,
     <<"2", "0", "2", "4", "-", "1", "3", "-", "0", "1",
       "T", "0", "0", ":", "0", "0", ":", "0", "0", "Z">>}

Zones == {-420, 0, 480}

TimeElemInputs ==
    {[cls |-> TimeClasses[k], text |-> t] : k \in 1..3, t \in UtcTexts \cup MalformedTexts}

InitTime ==
    \E cycle \in HourCycles, tz \in Zones :
    \E a \in TimeElemInputs, b \in TimeElemInputs :
        InitState(Elements, SampleDom, <<"/pic/1">>, <<SampleCount>>, <<a, b>>, tz, cycle, 1000)

SpecTime == InitTime /\ [][Boot]_vars

(***************************************************************************)
(* Properties.                                                              *)
(***************************************************************************)
Range(f) == {f[i] : i \in DOMAIN f}

\* the structural nesting level of a node: the number of lists it lies in
Level(dom, n) == Cardinality({a \in AncestorsOrSelf(dom, n) \ {0, n} : dom[a].tag = "ul"})

\* the list items of the TOC: the li elements inside .toc's top-level list
ListItems(dom) ==
    {n \in 1..Len(dom) : /\ dom[n].tag = "li"
                         /\ QuerySelectorUl(dom, 0) \in AncestorsOrSelf(dom, n)}

\* C1: once setupTableOfContents has run, every list item of the TOC, whatever the
\* shape of the nesting, carries exactly one class toclevel-k, k its nesting level.
C1_EveryItemTaggedWithItsLevel ==
    "toc" \in ran =>
        \A n \in ListItems(tocDom) : liClasses[n] = {TocLevelClass(Level(tocDom, n))}

\* no item of the TOC holds more than one nested list
SingleNesting(dom) ==
    \A n \in 1..Len(dom) :
        dom[n].tag = "li" => Cardinality({c \in Children(dom, n) : dom[c].tag = "ul"}) <= 1

\* The tagging is right on every TOC whose items hold at most one nested list each,
\* and an item that is tagged at all is tagged with its level alone.
TocTaggedUnderSingleNesting ==
    "toc" \in ran =>
        /\ SingleNesting(tocDom) =>
               \A n \in ListItems(tocDom) : liClasses[n] = {TocLevelClass(Level(tocDom, n))}
        /\ \A n \in 1..Len(tocDom) : liClasses[n] \subseteq {TocLevelClass(Level(tocDom, n))}

TocHasItems(dom) ==
    QuerySelectorUl(dom, 0) # 0 /\ Children(dom, QuerySelectorUl(dom, 0)) # {}

\* C2: after the bootstrap the .toc container is visible and starts with exactly one
\* heading if and only if its top-level list exists and has an item; otherwise it is
\* hidden and nothing was added to it.
C2_TocVisibleIffListHasItems ==
    (phase = "idle" /\ "toc" \in present) =>
        IF TocHasItems(tocDom)
        THEN "d-none" \notin tocContainerClasses /\ tocPrepended = <<"Table of Contents">>
        ELSE "d-none" \in tocContainerClasses /\ tocPrepended = <<>>

\* The same on the pages that hold every element the first listener uses.
TocVisibleIffListHasItemsWhenWellFormed ==
    (phase = "idle" /\ {"toc", "postUid", "comment", "commentForm"} \subseteq present) =>
        IF TocHasItems(tocDom)
        THEN "d-none" \notin tocContainerClasses /\ tocPrepended = <<"Table of Contents">>
        ELSE "d-none" \in tocContainerClasses /\ tocPrepended = <<>>

\* the initialisation steps whose own elements the page holds
ExpectedSteps(pres) ==
    {"time", "counts", "resizeListeners"}
        \cup (IF "toc" \in pres THEN {"toc"} ELSE {})
        \cup (IF "postUid" \in pres THEN {"readCountTimer"} ELSE {})
        \cup (IF "cover" \in pres THEN {"coverHeight"} ELSE {})
        \cup (IF "content" \in pres THEN {"contentMinHeight"} ELSE {})

\* C6: whatever elements are absent, the bootstrap raises no uncaught exception and
\* every initialisation step whose own elements are present has run.
C6_NoMissingElementBreaksBootstrap ==
    phase = "idle" => uncaught = {} /\ ExpectedSteps(present) \subseteq ran

\* C7: the read-count GET for the page's post identifier is issued at most once, never
\* before the delay after DOMContentLoaded has passed, never again after a failure, and
\* once the delay has passed with no timeout left to fire it has been issued.
C7_ReadCountIssuedExactlyOnce ==
    /\ Len(readRequests) <= 1
    /\ \A k \in DOMAIN readRequests :
           /\ dclAt >= 0
           /\ readRequests[k].at >= dclAt + 30000
           /\ readRequests[k].postUid = postUid
    /\ readFetch # "none" => Len(readRequests) = 1
    /\ (/\ phase = "idle"
        /\ "postUid" \in present
        /\ now >= dclAt + 30000
        /\ readTimer.state # "armed") => Len(readRequests) = 1

\* The same on the pages whose script and first listener reach line 84.
ReadCountIssuedExactlyOnceWhenArmed ==
    /\ Len(readRequests) <= 1
    /\ \A k \in DOMAIN readRequests :
           /\ dclAt >= 0
           /\ readRequests[k].at >= dclAt + 30000
           /\ readRequests[k].postUid = postUid
    /\ readFetch # "none" => Len(readRequests) = 1
    /\ (/\ phase = "idle"
        /\ {"toc", "postUid"} \subseteq present
        /\ now >= dclAt + 30000
        /\ readTimer.state # "armed") => Len(readRequests) = 1

ChromeTotal(pres, style) ==
    (IF "navbar" \in pres THEN ChromeHeight.navbar ELSE 0)
        + (IF "cover" \in pres THEN RoundRatio(style.num, style.den) ELSE 0)
        + (IF "bottomNav" \in pres THEN ChromeHeight.bottomNav ELSE 0)
        + (IF "footer" \in pres THEN ChromeHeight.footer ELSE 0)

\* C9: after the load and after every resize, the content's min-height is
\* 102vh minus the current heights of navbar, cover, bottom nav and footer, an
\* absent one counting as 0, the cover's height being the one of the current width.
C9_ContentMinHeightIsViewportMinusChrome ==
    (phase = "idle" /\ "content" \in present /\ ~resizePending) =>
        /\ contentMinHeight.set
        /\ contentMinHeight.vh = 102
        /\ contentMinHeight.px = ChromeTotal(present, [num |-> 9 * coverWidth, den |-> 21])

\* The same on the pages that hold a cover.
ContentMinHeightWhenCoverPresent ==
    (phase = "idle" /\ {"content", "cover"} \subseteq present /\ ~resizePending) =>
        /\ contentMinHeight.set
        /\ contentMinHeight.vh = 102
        /\ contentMinHeight.px = ChromeTotal(present, [num |-> 9 * coverWidth, den |-> 21])

Usable(body) == body.kind = "object" /\ body.hasImageUrl /\ body.imageUrl # ""

\* C3: an image's src is the imageUrl of its lookup's reply once that lookup has
\* ended with a JSON object holding a non-empty imageUrl; in every other state of the
\* lookup, and after every ending in a failure, it is the src the image was served
\* with, and the failure was logged; this for each image whatever the others do.
C3_SrcChangesOnlyOnUsableReply ==
    \A i \in DOMAIN imgSrc :
        LET f == imgFetch[i]
            swapped == f.state = "done" /\ Usable(f.body)
        IN  /\ swapped => imgSrc[i] = f.body.imageUrl
            /\ ~swapped => imgSrc[i] = imgInitial[i]
            /\ (f.state = "done" /\ ~swapped) =>
                   \E e \in console : e.source = "image" /\ e.id = i
            /\ (\E e \in console : e.source = "image" /\ e.id = i) =>
                   (f.state = "done" /\ ~swapped)

\* one image was replaced while another one's lookup failed on an empty imageUrl
C3_Witness ==
    \E i, j \in DOMAIN imgSrc :
        /\ i # j
        /\ imgFetch[i].state = "done" /\ Usable(imgFetch[i].body)
        /\ imgSrc[i] # imgInitial[i]
        /\ imgFetch[j].state = "done" /\ imgFetch[j].body.kind = "object"
        /\ imgFetch[j].body.hasImageUrl /\ imgFetch[j].body.imageUrl = ""
        /\ imgSrc[j] = imgInitial[j]

\* a bare number: the whole content, white space around it aside, is one decimal
\* literal (digits with an optional sign and an optional fraction; "1." and ".5" count)
IsBareNumber(s) ==
    LET t == trim(s)
        i1 == IF t # <<>> /\ t[1] \in {"-", "+"} THEN 2 ELSE 1
        nInt == DigitRun(t, i1)
        dot == i1 + nInt
        nFrac == IF dot <= Len(t) /\ t[dot] = "." THEN DigitRun(t, dot + 1) ELSE 0
    IN  /\ nInt + nFrac > 0
        /\ \/ dot = Len(t) + 1
           \/ dot <= Len(t) /\ t[dot] = "." /\ dot + nFrac = Len(t)

\* C4: formatCounts rewrites a bare number to its grouped rendering and leaves any
\* content that is not a bare number unchanged, character for character.
C4_OnlyBareNumbersRewritten ==
    "counts" \in ran =>
        \A i \in DOMAIN countText :
            IF IsBareNumber(countInitial[i])
            THEN countText[i] = numberToLocaleString(parseFloat(countInitial[i]))
            ELSE countText[i] = countInitial[i]

\* Bare numbers are rewritten to their grouped rendering, and the content that has no
\* numeric prefix is left as it was.
CountsRewrittenByNumericPrefix ==
    "counts" \in ran =>
        \A i \in DOMAIN countText :
            /\ IsBareNumber(countInitial[i]) =>
                   countText[i] = numberToLocaleString(parseFloat(countInitial[i]))
            /\ (\A k \in DOMAIN countInitial[i] : ~IsDigit(countInitial[i][k])) =>
                   countText[i] = countInitial[i]
            /\ countInitial[i] = SampleCount => countText[i] = <<"1", "2", ",", "3", "4", "5">>

\* the instant a UTC timestamp denotes: the text read in the timezone UTC
UtcInstant(text) == dateParse(trim(text), 0)

\* the rendering of calendar fields in the format of a class, hours 00 to 23
Rendering(cls, f) ==
    IF cls = "utc-to-local-long" THEN numericDate(f) \o <<" ">> \o time24(f, "h23")
    ELSE IF cls = "utc-to-local-medium" THEN numericDate(f)
    ELSE longMonthDate(f)

\* C5: every element holding a UTC timestamp is rewritten to the rendering, in the
\* format of its class, of that UTC instant shifted by the viewer's timezone offset.
C5_UtcRenderedInViewerTimezone ==
    "time" \in ran =>
        \A i \in DOMAIN timeElems :
            UtcInstant(timeInitial[i].text).valid =>
                timeElems[i].text =
                    Rendering(timeInitial[i].cls,
                              CivilFields(UtcInstant(timeInitial[i].text).t, tzOffset))

HasDesignator(text) == LET s == trim(text) IN Len(s) = 20 /\ s[20] = "Z"

\* The same for the timestamps written with the designator Z or as a date only, in an
\* engine that reads hour12: false as the cycle h23.
UtcRenderedWhenDesignated ==
    ("time" \in ran /\ hourCycle = "h23") =>
        \A i \in DOMAIN timeElems :
            (/\ UtcInstant(timeInitial[i].text).valid
             /\ (HasDesignator(timeInitial[i].text) \/ Len(trim(timeInitial[i].text)) = 10)) =>
                timeElems[i].text =
                    Rendering(timeInitial[i].cls,
                              CivilFields(UtcInstant(timeInitial[i].text).t, tzOffset))

Malformed(text) == ~dateParse(trim(text), 0).valid

====
